---- MODULE Spec2Model ----
(***************************************************************************)
(* A model of the prefix-tree crate.                                       *)
(*                                                                         *)
(* The sources hold the tree in more than one generation:                  *)
(*   - src/src/tree.rs : Tree<K, V> in the child/sibling encoding, with    *)
(*     find and insert.  It is modelled as written (specification          *)
(*     SpecTree: a tree built by Tree::new and grown by Tree::insert).     *)
(*   - src/src/map.rs, src/src/set.rs : PrefixMap, its Iter, and PrefixSet.*)
(*     They call a Tree with an ordered children collection (empty(),      *)
(*     children(), key(), value(), insert returning the previous value)    *)
(*     whose definition is not among the sources; that tree is modelled    *)
(*     from the design document (the RadixNode_* operators), and the map,  *)
(*     the iterator and the set are modelled from their code               *)
(*     (specifications Spec and SpecSet).                                  *)
(*   - src/src/lib.rs : the earliest, byte-keyed Node<T>, superseded by    *)
(*     tree.rs; it is not modelled.                                        *)
(***************************************************************************)
EXTENDS Integers, Sequences, FiniteSets

VARIABLES
    tree,     \* SpecTree: the root Tree<K, V> of tree.rs
    tlast,    \* SpecTree, history: key -> Option of the value of its last insert
    tops,     \* SpecTree, history: number of insertions so far (Tree::new included)
    map,      \* Spec: the PrefixMap {root, length}
    last,     \* Spec, history: key -> Option of the value last given to it since the last clear
    order,    \* Spec, history: the distinct keys inserted since the last clear, in order of first insertion
    nops,     \* Spec, history: number of mutating calls so far
    ret,      \* Spec, history: the last mutating call and what it returned
    iter,     \* Spec: Option of the live map::Iter {stack, length}
    out,      \* Spec, history: what each next() call on the live iterator returned, in order
    set,      \* SpecSet: the PrefixSet {map}
    sadded,   \* SpecSet, history: the keys inserted so far
    sret,     \* SpecSet, history: what the last insert returned
    sops      \* SpecSet, history: number of insert calls so far

treeVars == <<tree, tlast, tops>>
mapVars == <<map, last, order, nops, ret, iter, out>>
setVars == <<set, sadded, sret, sops>>
vars == <<tree, tlast, tops, map, last, order, nops, ret, iter, out,
          set, sadded, sret, sops>>

(***************************************************************************)
(* Bounds of the model.                                                    *)
(***************************************************************************)
MaxKeyLen == 2      \* keys are sequences of at most this many symbols
MaxOps == 3         \* at most this many mutating calls in one behaviour
MaxIdleCalls == 2   \* at most this many next() calls after the iterator is spent

\* The key element type K: two symbols are enough to diverge, extend and prefix.
K == {1, 2}

RECURSIVE KeysOfLen(_)
KeysOfLen(n) ==
    IF n = 0 THEN {<<>>}
    ELSE {Append(s, x) : s \in KeysOfLen(n - 1), x \in K}

Keys == UNION {KeysOfLen(n) : n \in 0..MaxKeyLen}

\* The keys given to a tree of tree.rs: the keys above and one key that is one
\* symbol longer, so that a node with a fragment of two symbols or more can
\* have a child when it is split.
RECURSIVE LongKey(_)
LongKey(n) == IF n = 0 THEN <<>> ELSE Append(LongKey(n - 1), 1)

TreeKeys == Keys \cup {LongKey(MaxKeyLen + 1)}

(***************************************************************************)
(* Option<T>: None is the empty sequence, Some(x) the one-element sequence. *)
(***************************************************************************)
None == <<>>
Some(x) == <<x>>
IsSome(o) == o # <<>>
Unwrap(o) == o[1]

\* key[from..] of Rust, with from counted from 0.
SliceFrom(s, from) == SubSeq(s, from + 1, Len(s))
\* key[..to] of Rust.
SliceTo(s, to) == SubSeq(s, 1, to)

(***************************************************************************)
(* tree.rs                                                                 *)
(***************************************************************************)
\* a.iter().zip(b).take_while(|(a, b)| a == b).count()
RECURSIVE common_prefix(_, _)
common_prefix(a, b) ==
    IF a = <<>> \/ b = <<>> THEN 0
    ELSE IF Head(a) = Head(b) THEN 1 + common_prefix(Tail(a), Tail(b))
    ELSE 0

Tree_new(key, value) ==
    [key |-> key, value |-> Some(value), child |-> None, sibling |-> None]

\* Tree::find with the arm for a key that leaves the fragment part-way
\* returning the node instead of None.
RECURSIVE Tree_find_lenient(_, _)
Tree_find_lenient(t, key) ==
    IF key = <<>> /\ t.key = <<>> THEN Some(t)
    ELSE LET p == common_prefix(t.key, key) IN
         IF p = 0
         THEN IF IsSome(t.sibling) THEN Tree_find_lenient(Unwrap(t.sibling), key) ELSE None
         ELSE IF p = Len(t.key)
         THEN IF p = Len(key) THEN Some(t)
              ELSE IF IsSome(t.child)
                   THEN Tree_find_lenient(Unwrap(t.child), SliceFrom(key, p))
                   ELSE None
         ELSE Some(t)

\* Tree::find: Option<&Tree>, here Option of the node found.
RECURSIVE Tree_find(_, _)
Tree_find(t, key) ==
    IF key = <<>> /\ t.key = <<>> THEN Some(t)
    ELSE LET p == common_prefix(t.key, key) IN
         IF p = 0
         THEN IF IsSome(t.sibling) THEN Tree_find(Unwrap(t.sibling), key) ELSE None
         ELSE IF p = Len(t.key)
         THEN IF p = Len(key) THEN Some(t)
              ELSE IF IsSome(t.child)
                   THEN Tree_find(Unwrap(t.child), SliceFrom(key, p))
                   ELSE None
         ELSE None

\* The split with the new child made without the children of the node
\* (child: None for child: self.child.take()).
Tree_split_drops_child(t, prefix) ==
    [key |-> SliceTo(t.key, prefix),
     value |-> None,
     child |-> Some([key |-> SliceFrom(t.key, prefix),
                     value |-> t.value,
                     child |-> None,
                     sibling |-> None]),
     sibling |-> t.sibling]

\* The split with the new child made without the value of the node
\* (value: None for value: self.value.take()).
Tree_split_drops_value(t, prefix) ==
    [key |-> SliceTo(t.key, prefix),
     value |-> None,
     child |-> Some([key |-> SliceFrom(t.key, prefix),
                     value |-> None,
                     child |-> t.child,
                     sibling |-> None]),
     sibling |-> t.sibling]

\* The split of Tree::insert (prefix < self.key.len()): the suffix of the
\* fragment, the value and the child move into a new only child.
Tree_split(t, prefix) ==
    [key |-> SliceTo(t.key, prefix),
     value |-> None,
     child |-> Some([key |-> SliceFrom(t.key, prefix),
                     value |-> t.value,
                     child |-> t.child,
                     sibling |-> None]),
     sibling |-> t.sibling]

\* Tree::insert without the split: a key that leaves the fragment part-way is
\* handed to the siblings.
RECURSIVE Tree_insert_no_split(_, _, _)
Tree_insert_no_split(t, key, value) ==
    LET prefix == common_prefix(t.key, key) IN
    IF prefix < Len(t.key) \/ prefix = 0
    THEN IF IsSome(t.sibling)
         THEN [t EXCEPT !.sibling =
                   Some(Tree_insert_no_split(Unwrap(t.sibling), key, value))]
         ELSE [t EXCEPT !.sibling = Some(Tree_new(key, value))]
    ELSE IF prefix < Len(key)
         THEN IF IsSome(t.child)
              THEN [t EXCEPT !.child =
                        Some(Tree_insert_no_split(Unwrap(t.child),
                                                  SliceFrom(key, prefix), value))]
              ELSE [t EXCEPT !.child = Some(Tree_new(SliceFrom(key, prefix), value))]
         ELSE [t EXCEPT !.value = Some(value)]

\* Tree::insert without the final else (self.value = Some(value)): a key that
\* ends at the node, after a split or not, stores nothing.
RECURSIVE Tree_insert_no_terminal(_, _, _)
Tree_insert_no_terminal(t, key, value) ==
    LET prefix == common_prefix(t.key, key) IN
    IF prefix = 0
    THEN IF IsSome(t.sibling)
         THEN [t EXCEPT !.sibling =
                   Some(Tree_insert_no_terminal(Unwrap(t.sibling), key, value))]
         ELSE [t EXCEPT !.sibling = Some(Tree_new(key, value))]
    ELSE LET s == IF prefix < Len(t.key) THEN Tree_split(t, prefix) ELSE t IN
         IF prefix < Len(key)
         THEN IF IsSome(s.child)
              THEN [s EXCEPT !.child =
                        Some(Tree_insert_no_terminal(Unwrap(s.child),
                                                     SliceFrom(key, prefix), value))]
              ELSE [s EXCEPT !.child = Some(Tree_new(SliceFrom(key, prefix), value))]
         ELSE s

\* Tree::insert, as the tree it leaves.
RECURSIVE Tree_insert(_, _, _)
Tree_insert(t, key, value) ==
    LET prefix == common_prefix(t.key, key) IN
    IF prefix = 0
    THEN IF IsSome(t.sibling)
         THEN [t EXCEPT !.sibling = Some(Tree_insert(Unwrap(t.sibling), key, value))]
         ELSE [t EXCEPT !.sibling = Some(Tree_new(key, value))]
    ELSE LET s == IF prefix < Len(t.key) THEN Tree_split(t, prefix) ELSE t IN
         IF prefix < Len(key)
         THEN IF IsSome(s.child)
              THEN [s EXCEPT !.child =
                        Some(Tree_insert(Unwrap(s.child), SliceFrom(key, prefix), value))]
              ELSE [s EXCEPT !.child = Some(Tree_new(SliceFrom(key, prefix), value))]
         ELSE [s EXCEPT !.value = Some(value)]

\* root.find(key).and_then(|x| x.value): the lookup the tests of tree.rs and
\* PrefixMap::get make.
Tree_get(t, key) ==
    LET n == Tree_find(t, key) IN
    IF IsSome(n) THEN Unwrap(n).value ELSE None

\* The nodes of a tree in the child/sibling encoding, and the sibling chains.
RECURSIVE Tree_nodes(_)
Tree_nodes(o) ==
    IF o = None THEN {}
    ELSE {Unwrap(o)} \cup Tree_nodes(Unwrap(o).child) \cup Tree_nodes(Unwrap(o).sibling)

RECURSIVE Tree_chain(_)
Tree_chain(o) ==
    IF o = None THEN <<>>
    ELSE <<Unwrap(o).key>> \o Tree_chain(Unwrap(o).sibling)

(***************************************************************************)
(* The tree PrefixMap calls (not among the sources; from the design        *)
(* document, sections 3 and 4): a node owns a key fragment, an optional    *)
(* value and an ordered collection of children.                            *)
(***************************************************************************)
\* Tree::empty(): the root, with an empty fragment and no value.
Tree_empty == [key |-> <<>>, value |-> None, children |-> <<>>]

\* The accessors key(), value() and children() that PrefixMap and Iter use.
Tree_key(t) == t.key
Tree_value(t) == t.value
Tree_children(t) == t.children

\* The index of the first child whose fragment shares a symbol with rest, or 0.
RECURSIVE RadixNode_match(_, _, _)
RadixNode_match(cs, rest, i) ==
    IF i > Len(cs) THEN 0
    ELSE IF common_prefix(cs[i].key, rest) > 0 THEN i
    ELSE RadixNode_match(cs, rest, i + 1)

\* find (section 4.1): Option of the node that holds the value of key.
RECURSIVE RadixNode_find(_, _)
RadixNode_find(n, k) ==
    LET p == common_prefix(n.key, k) IN
    IF p < Len(n.key) THEN None
    ELSE IF p = Len(k) THEN (IF IsSome(n.value) THEN Some(n) ELSE None)
    ELSE LET rest == SliceFrom(k, p)
             i == RadixNode_match(n.children, rest, 1)
         IN IF i = 0 THEN None ELSE RadixNode_find(n.children[i], rest)

\* The split of section 4.2, step 1.
RadixNode_split(n, p) ==
    [key |-> SliceTo(n.key, p),
     value |-> None,
     children |-> <<[key |-> SliceFrom(n.key, p),
                     value |-> n.value,
                     children |-> n.children]>>]

\* insert (section 4.2): the node it leaves and the previous value.
RECURSIVE RadixNode_insert(_, _, _)
RadixNode_insert(n, k, v) ==
    LET p == common_prefix(n.key, k)
        s == IF p < Len(n.key) THEN RadixNode_split(n, p) ELSE n
    IN IF p = Len(k)
       THEN [node |-> [s EXCEPT !.value = Some(v)], old |-> s.value]
       ELSE LET rest == SliceFrom(k, p)
                i == RadixNode_match(s.children, rest, 1)
            IN IF i = 0
               THEN [node |-> [s EXCEPT !.children =
                                   Append(@, [key |-> rest, value |-> Some(v),
                                              children |-> <<>>])],
                     old |-> None]
               ELSE LET r == RadixNode_insert(s.children[i], rest, v) IN
                    [node |-> [s EXCEPT !.children[i] = r.node], old |-> r.old]

\* find_mut followed by a write through the reference: the tree with the
\* value found for key replaced; the structure is untouched.
RECURSIVE RadixNode_write(_, _, _)
RadixNode_write(n, k, v) ==
    LET p == common_prefix(n.key, k) IN
    IF p < Len(n.key) THEN n
    ELSE IF p = Len(k) THEN (IF IsSome(n.value) THEN [n EXCEPT !.value = Some(v)] ELSE n)
    ELSE LET rest == SliceFrom(k, p)
             i == RadixNode_match(n.children, rest, 1)
         IN IF i = 0 THEN n
            ELSE [n EXCEPT !.children[i] = RadixNode_write(n.children[i], rest, v)]

(***************************************************************************)
(* map.rs                                                                  *)
(***************************************************************************)
PrefixMap_new == [root |-> Tree_empty, length |-> 0]

\* self.root.find(key).and_then(|x| x.value())
PrefixMap_get(m, k) ==
    LET n == RadixNode_find(m.root, k) IN
    IF IsSome(n) THEN Tree_value(Unwrap(n)) ELSE None

PrefixMap_contains_key(m, k) == IsSome(PrefixMap_get(m, k))

\* get_mut(key) and the assignment *x = v the caller makes when it is Some.
PrefixMap_get_mut(m, k, v) == [m EXCEPT !.root = RadixNode_write(m.root, k, v)]

\* insert that counts every call, whether or not a value was replaced.
PrefixMap_insert_counts_all(m, k, v) ==
    LET r == RadixNode_insert(m.root, k, v) IN
    [map |-> [root |-> r.node, length |-> m.length + 1], old |-> r.old]

\* insert: the map it leaves and the value it returns.
PrefixMap_insert(m, k, v) ==
    LET r == RadixNode_insert(m.root, k, v) IN
    [map |-> [root |-> r.node,
              length |-> IF r.old = None THEN m.length + 1 ELSE m.length],
     old |-> r.old]

PrefixMap_len(m) == m.length

PrefixMap_is_empty(m) == PrefixMap_len(m) = 0

\* iter(): one stack frame for the root; a slice iterator is the slice of
\* the items it has not yet returned.
PrefixMap_iter(m) ==
    [root |-> m.root,
     stack |-> <<[iter |-> Tree_children(m.root), key_fragment |-> Tree_key(m.root)]>>,
     length |-> m.length]

\* The key taken from the last frame alone instead of the whole stack.
Iter_key_last_frame(stack) ==
    IF stack = <<>> THEN <<>> ELSE stack[Len(stack)].key_fragment

\* stack.iter().map(|x| x.key_fragment).flatten().cloned().collect()
RECURSIVE Iter_key(_)
Iter_key(stack) ==
    IF stack = <<>> THEN <<>>
    ELSE Head(stack).key_fragment \o Iter_key(Tail(stack))

\* The while loop without self.length -= 1.
RECURSIVE Iter_walk_no_decrement(_)
Iter_walk_no_decrement(it) ==
    IF it.stack = <<>> THEN [iter |-> it, item |-> None]
    ELSE LET top == it.stack[Len(it.stack)] IN
         IF top.iter # <<>>
         THEN LET t == Head(top.iter)
                  advanced == [it.stack EXCEPT ![Len(it.stack)].iter = Tail(top.iter)]
                  pushed == Append(advanced,
                                   [iter |-> Tree_children(t), key_fragment |-> Tree_key(t)])
              IN IF IsSome(Tree_value(t))
                 THEN [iter |-> [it EXCEPT !.stack = pushed],
                       item |-> Some([key |-> Iter_key(pushed),
                                      value |-> Unwrap(Tree_value(t))])]
                 ELSE Iter_walk_no_decrement([it EXCEPT !.stack = pushed])
         ELSE Iter_walk_no_decrement(
                  [it EXCEPT !.stack = SubSeq(it.stack, 1, Len(it.stack) - 1)])

\* The while loop taking the children from the back of the slice
\* (next_back for next).
RECURSIVE Iter_walk_from_back(_)
Iter_walk_from_back(it) ==
    IF it.stack = <<>> THEN [iter |-> it, item |-> None]
    ELSE LET top == it.stack[Len(it.stack)] IN
         IF top.iter # <<>>
         THEN LET t == top.iter[Len(top.iter)]
                  advanced == [it.stack EXCEPT ![Len(it.stack)].iter =
                                   SubSeq(top.iter, 1, Len(top.iter) - 1)]
                  pushed == Append(advanced,
                                   [iter |-> Tree_children(t), key_fragment |-> Tree_key(t)])
              IN IF IsSome(Tree_value(t))
                 THEN [iter |-> [it EXCEPT !.stack = pushed, !.length = it.length - 1],
                       item |-> Some([key |-> Iter_key(pushed),
                                      value |-> Unwrap(Tree_value(t))])]
                 ELSE Iter_walk_from_back([it EXCEPT !.stack = pushed])
         ELSE Iter_walk_from_back(
                  [it EXCEPT !.stack = SubSeq(it.stack, 1, Len(it.stack) - 1)])

\* The while loop of Iter::next.
RECURSIVE Iter_walk(_)
Iter_walk(it) ==
    IF it.stack = <<>> THEN [iter |-> it, item |-> None]
    ELSE LET top == it.stack[Len(it.stack)] IN
         IF top.iter # <<>>
         THEN LET t == Head(top.iter)
                  advanced == [it.stack EXCEPT ![Len(it.stack)].iter = Tail(top.iter)]
                  pushed == Append(advanced,
                                   [iter |-> Tree_children(t), key_fragment |-> Tree_key(t)])
              IN IF IsSome(Tree_value(t))
                 THEN [iter |-> [it EXCEPT !.stack = pushed, !.length = it.length - 1],
                       item |-> Some([key |-> Iter_key(pushed),
                                      value |-> Unwrap(Tree_value(t))])]
                 ELSE Iter_walk([it EXCEPT !.stack = pushed])
         ELSE Iter_walk([it EXCEPT !.stack = SubSeq(it.stack, 1, Len(it.stack) - 1)])

\* Iter::next with the root's entry returned on the first call (length >= 1
\* for length == 1).
Iter_next_root_first(it) ==
    IF it.length >= 1 /\ IsSome(Tree_value(it.root))
    THEN [iter |-> [it EXCEPT !.length = 0],
          item |-> Some([key |-> <<>>, value |-> Unwrap(Tree_value(it.root))])]
    ELSE Iter_walk(it)

\* Iter::next: the iterator it leaves and the item it returns.
Iter_next(it) ==
    IF it.length = 1 /\ IsSome(Tree_value(it.root))
    THEN [iter |-> [it EXCEPT !.length = 0],
          item |-> Some([key |-> <<>>, value |-> Unwrap(Tree_value(it.root))])]
    ELSE Iter_walk(it)

\* size_hint and ExactSizeIterator::len
Iter_len(it) == it.length

\* Keys::next and Values::next: the projections of Iter::next.
Keys_next(it) ==
    LET r == Iter_next(it) IN
    [iter |-> r.iter, item |-> IF IsSome(r.item) THEN Some(Unwrap(r.item).key) ELSE None]

Values_next(it) ==
    LET r == Iter_next(it) IN
    [iter |-> r.iter, item |-> IF IsSome(r.item) THEN Some(Unwrap(r.item).value) ELSE None]

(***************************************************************************)
(* set.rs: PrefixSet<T> is a PrefixMap<T, ()>.                             *)
(***************************************************************************)
Unit == "()"

PrefixSet_new == [map |-> PrefixMap_new]

\* self.map.get(key).is_some()
PrefixSet_contains(s, k) == IsSome(PrefixMap_get(s.map, k))

\* insert answering is_some() for is_none().
PrefixSet_insert_is_some(s, k) ==
    LET r == PrefixMap_insert(s.map, k, Unit) IN
    [set |-> [map |-> r.map], added |-> r.old # None]

\* self.map.insert(key, ()).is_none(): the set it leaves and the bool it returns.
PrefixSet_insert(s, k) ==
    LET r == PrefixMap_insert(s.map, k, Unit) IN
    [set |-> [map |-> r.map], added |-> r.old = None]

PrefixSet_len(s) == PrefixMap_len(s.map)

PrefixSet_is_empty(s) == PrefixMap_is_empty(s.map)

\* set::Iter wraps the map's iterator: next() keeps the key, len() delegates.
PrefixSet_iter(s) == [iter |-> PrefixMap_iter(s.map)]

SetIter_next(si) ==
    LET r == Iter_next(si.iter) IN
    [iter |-> [iter |-> r.iter],
     item |-> IF IsSome(r.item) THEN Some(Unwrap(r.item).key) ELSE None]

SetIter_len(si) == Iter_len(si.iter)

NoKey == [k \in Keys |-> None]

NoTreeKey == [k \in TreeKeys |-> None]

TreeIdle ==
    /\ tree = None
    /\ tlast = NoTreeKey
    /\ tops = 0

MapIdle ==
    /\ map = None
    /\ last = NoKey
    /\ order = <<>>
    /\ nops = 0
    /\ ret = None
    /\ iter = None
    /\ out = <<>>

SetIdle ==
    /\ set = None
    /\ sadded = {}
    /\ sret = None
    /\ sops = 0

(***************************************************************************)
(* SpecTree: a tree of tree.rs, built by Tree::new(key, value) and grown   *)
(* by insert.  The value type is opaque to the code (it is never compared  *)
(* or inspected), so the i-th insertion stores the value i: every          *)
(* insertion is then told apart from every earlier one.                    *)
(***************************************************************************)
TreeInit ==
    /\ \E k \in TreeKeys :
        /\ tree = Tree_new(k, 1)
        /\ tlast = [NoTreeKey EXCEPT ![k] = Some(1)]
    /\ tops = 1
    /\ MapIdle
    /\ SetIdle

TreeInsert(k) ==
    /\ tops < MaxOps
    /\ tree' = Tree_insert(tree, k, tops + 1)
    /\ tlast' = [tlast EXCEPT ![k] = Some(tops + 1)]
    /\ tops' = tops + 1
    /\ UNCHANGED <<mapVars, setVars>>

TreeNext == \E k \in TreeKeys : TreeInsert(k)

SpecTree == TreeInit /\ [][TreeNext]_vars

(***************************************************************************)
(* Spec: a PrefixMap under new, insert, get_mut, clear and iteration.      *)
(* An iterator borrows the map, so the map is not changed while one is     *)
(* live; dropping the iterator ends the borrow.  The i-th mutating call    *)
(* writes the value i.                                                     *)
(***************************************************************************)
Init ==
    /\ map = PrefixMap_new
    /\ last = NoKey
    /\ order = <<>>
    /\ nops = 0
    /\ ret = None
    /\ iter = None
    /\ out = <<>>
    /\ TreeIdle
    /\ SetIdle

Insert(k) ==
    /\ iter = None
    /\ nops < MaxOps
    /\ LET r == PrefixMap_insert(map, k, nops + 1) IN
        /\ map' = r.map
        /\ ret' = Some([op |-> "insert", key |-> k, result |-> r.old])
    /\ last' = [last EXCEPT ![k] = Some(nops + 1)]
    /\ order' = IF last[k] = None THEN Append(order, k) ELSE order
    /\ nops' = nops + 1
    /\ UNCHANGED <<iter, out, treeVars, setVars>>

\* get_mut(k) and, when it returns Some(x), *x = value; when it returns None
\* nothing is written.
GetMut(k) ==
    /\ iter = None
    /\ nops < MaxOps
    /\ IF IsSome(PrefixMap_get(map, k))
       THEN /\ map' = PrefixMap_get_mut(map, k, nops + 1)
            /\ ret' = Some([op |-> "get_mut", key |-> k, result |-> PrefixMap_get(map, k)])
            /\ last' = [last EXCEPT ![k] = Some(nops + 1)]
            /\ nops' = nops + 1
       ELSE UNCHANGED <<map, ret, last, nops>>
    /\ UNCHANGED <<order, iter, out, treeVars, setVars>>

Clear ==
    /\ iter = None
    /\ nops < MaxOps
    /\ map' = PrefixMap_new
    /\ ret' = Some([op |-> "clear", key |-> <<>>, result |-> None])
    /\ last' = NoKey
    /\ order' = <<>>
    /\ nops' = nops + 1
    /\ UNCHANGED <<iter, out, treeVars, setVars>>

IterStart ==
    /\ iter = None
    /\ iter' = Some(PrefixMap_iter(map))
    /\ out' = <<>>
    /\ UNCHANGED <<map, last, order, nops, ret, treeVars, setVars>>

IterNext ==
    /\ iter # None
    /\ Len(out) < PrefixMap_len(map) + MaxIdleCalls
    /\ LET r == Iter_next(Unwrap(iter)) IN
        /\ iter' = Some(r.iter)
        /\ out' = Append(out, r.item)
    /\ UNCHANGED <<map, last, order, nops, ret, treeVars, setVars>>

IterDrop ==
    /\ iter # None
    /\ iter' = None
    /\ out' = <<>>
    /\ UNCHANGED <<map, last, order, nops, ret, treeVars, setVars>>

Next ==
    \/ \E k \in Keys : Insert(k)
    \/ \E k \in Keys : GetMut(k)
    \/ Clear
    \/ IterStart
    \/ IterNext
    \/ IterDrop

Spec == Init /\ [][Next]_vars

(***************************************************************************)
(* SpecSet: a PrefixSet under new and insert.                              *)
(***************************************************************************)
SetInit ==
    /\ set = PrefixSet_new
    /\ sadded = {}
    /\ sret = None
    /\ sops = 0
    /\ TreeIdle
    /\ MapIdle

SetInsert(k) ==
    /\ sops < MaxOps
    /\ LET r == PrefixSet_insert(set, k) IN
        /\ set' = r.set
        /\ sret' = Some([key |-> k, result |-> r.added, fresh |-> k \notin sadded])
    /\ sadded' = sadded \cup {k}
    /\ sops' = sops + 1
    /\ UNCHANGED <<treeVars, mapVars>>

SetNext == \E k \in Keys : SetInsert(k)

SpecSet == SetInit /\ [][SetNext]_vars

(***************************************************************************)
(* Properties of tree.rs (SpecTree).                                       *)
(***************************************************************************)
\* The number of value-bearing nodes of a tree in the child/sibling encoding.
RECURSIVE Tree_count(_)
Tree_count(o) ==
    IF o = None THEN 0
    ELSE (IF IsSome(Unwrap(o).value) THEN 1 ELSE 0)
         + Tree_count(Unwrap(o).child) + Tree_count(Unwrap(o).sibling)

\* The fragments of every group of siblings: the chain of the root and the
\* chain under each node.
Tree_sibling_groups ==
    {Tree_chain(Some(tree))} \cup {Tree_chain(n.child) : n \in Tree_nodes(Some(tree))}

\* C1: after any sequence of insertions, every key inserted at least once is
\* looked up to the value of its last insertion.
C1_GetReturnsLastInserted ==
    \A k \in TreeKeys : IsSome(tlast[k]) => Tree_get(tree, k) = tlast[k]

\* C2: inserting a key that is already stored leaves the number of stored
\* entries unchanged, and the key is then looked up to the new value.
C2_ReinsertOverwrites ==
    [][\A k \in TreeKeys :
          (IsSome(tlast[k]) /\ tlast'[k] # tlast[k])
              => /\ Tree_get(tree', k) = tlast'[k]
                 /\ Tree_count(Some(tree')) = Tree_count(Some(tree))]_vars

\* C4 as stated: for every key never inserted, find returns none.
C4_FindOfAbsentKeyIsNone ==
    \A k \in TreeKeys : tlast[k] = None => Tree_find(tree, k) = None

\* C4 as amended: for every key never inserted, the lookup (find, then the
\* value of the node found) returns none; find itself returns none unless the
\* key ends exactly at a branch node without a value, which it then returns.
\* On the empty map (PrefixMap::new) get returns none for every key.
C4_AbsentKeyNotPresent ==
    /\ \A k \in TreeKeys :
           tlast[k] = None =>
               /\ Tree_get(tree, k) = None
               /\ Tree_find(tree, k) # None =>
                      /\ Unwrap(Tree_find(tree, k)).value = None
                      /\ Len(Tree_chain(Unwrap(Tree_find(tree, k)).child)) >= 2
    /\ \A k \in Keys : PrefixMap_get(PrefixMap_new, k) = None

\* C4's case: a key never inserted that ends exactly at a branch node without
\* a value, next to a key never inserted that is a strict prefix of a fragment.
C4_Witness ==
    /\ tlast[<<1>>] = None
    /\ Tree_find(tree, <<1>>) # None
    /\ IsSome(tlast[<<1, 1>>]) /\ IsSome(tlast[<<1, 2>>])
    /\ tlast[<<2>>] = None
    /\ \E k \in TreeKeys : IsSome(tlast[k]) /\ Len(k) > 1 /\ Head(k) = 2

\* C5: the empty key is an ordinary key: once it was inserted, it is looked
\* up to the value of its last insertion.
C5_EmptyKeyIsOrdinary ==
    IsSome(tlast[<<>>]) => Tree_get(tree, <<>>) = tlast[<<>>]

\* C7: no two siblings anywhere in the tree have fragments that share a
\* common prefix of one symbol or more.
C7_SiblingsDisjoint ==
    \A c \in Tree_sibling_groups :
        \A i, j \in 1..Len(c) : i # j => common_prefix(c[i], c[j]) = 0

\* C7's case: a split has made a branch node whose children are siblings, and
\* the root has a sibling too.
C7_Witness ==
    /\ tree.value = None
    /\ Len(Tree_chain(tree.child)) >= 2
    /\ Len(Tree_chain(Some(tree))) >= 2

\* The number of nodes of a tree in the child/sibling encoding.
RECURSIVE Tree_size(_)
Tree_size(o) ==
    IF o = None THEN 0
    ELSE 1 + Tree_size(Unwrap(o).child) + Tree_size(Unwrap(o).sibling)

\* The node on the path of key inside whose fragment key ends (the rest of
\* the key is a strict prefix of the fragment, of one symbol or more), with
\* that rest of the key; None when there is no such node.
RECURSIVE Tree_ends_inside(_, _)
Tree_ends_inside(o, key) ==
    IF o = None THEN None
    ELSE LET t == Unwrap(o)
             p == common_prefix(t.key, key)
         IN IF p = 0 THEN Tree_ends_inside(t.sibling, key)
            ELSE IF p = Len(key)
            THEN IF p < Len(t.key) THEN Some([node |-> t, rest |-> key]) ELSE None
            ELSE IF p = Len(t.key) THEN Tree_ends_inside(t.child, SliceFrom(key, p))
            ELSE None

C13_InsertChangesOnlyItsKey ==
    [][\A k \in TreeKeys :
          tlast'[k] = tlast[k]
              => /\ Tree_get(tree', k) = Tree_get(tree, k)
                 /\ IsSome(Tree_find(tree, k)) => IsSome(Tree_find(tree', k))]_vars

\* C13's case: the third insertion, of <<1, 2>>, split the node of fragment
\* <<1, 1>> that held a value and a child; the two keys stored through that
\* node are looked up to their values below the new branch node.
C13_Witness ==
    /\ tlast[<<1, 1>>] = Some(1)
    /\ tlast[<<1, 1, 1>>] = Some(2)
    /\ tlast[<<1, 2>>] = Some(3)
    /\ tree.key = <<1>>
    /\ tree.value = None
    /\ Tree_get(tree, <<1, 1>>) = Some(1)
    /\ Tree_get(tree, <<1, 1, 1>>) = Some(2)

\* C14: every node that holds no value has at least two children, so every
\* leaf and every node with a single child holds a value.  In tree.rs the
\* tree starts as the node of its first key, which holds a value, so this
\* covers the first node too.
C14_ValuelessNodesBranch ==
    \A n \in Tree_nodes(Some(tree)) :
        n.value = None => Len(Tree_chain(n.child)) >= 2

\* C14's case: a split has left a branch node without a value, and one of
\* its children, which holds a value, has a single child.
C14_Witness ==
    \E n, m \in Tree_nodes(Some(tree)) :
        /\ n.value = None
        /\ Len(Tree_chain(n.child)) = 2
        /\ IsSome(m.value)
        /\ Len(Tree_chain(m.child)) = 1
        /\ m \in Tree_nodes(n.child)

(***************************************************************************)
(* Properties of PrefixMap and its iterator (Spec).                        *)
(***************************************************************************)
Max(a, b) == IF a > b THEN a ELSE b

IsPrefixOf(q, k) == Len(q) <= Len(k) /\ SliceTo(k, Len(q)) = q

\* The number of value-bearing nodes reachable from a node.
RECURSIVE Node_count(_)
RECURSIVE Forest_count(_)
Node_count(n) == (IF IsSome(n.value) THEN 1 ELSE 0) + Forest_count(n.children)
Forest_count(cs) ==
    IF cs = <<>> THEN 0 ELSE Node_count(Head(cs)) + Forest_count(Tail(cs))

\* The full keys of the value-bearing nodes in depth-first pre-order, each
\* node before its children and the children in their stored order.
RECURSIVE Node_walk(_, _)
RECURSIVE Forest_walk(_, _)
Node_walk(n, path) ==
    (IF IsSome(n.value) THEN <<path \o n.key>> ELSE <<>>)
        \o Forest_walk(n.children, path \o n.key)
Forest_walk(cs, path) ==
    IF cs = <<>> THEN <<>>
    ELSE Node_walk(Head(cs), path) \o Forest_walk(Tail(cs), path)

\* The keys that get finds in the map, with their values.
Entries ==
    {[key |-> k, value |-> Unwrap(PrefixMap_get(map, k))] :
        k \in {x \in Keys : IsSome(PrefixMap_get(map, x))}}

\* The items the live iterator has yielded so far, in order.
RECURSIVE SomeItems(_)
SomeItems(results) ==
    IF results = <<>> THEN <<>>
    ELSE (IF IsSome(Head(results)) THEN <<Unwrap(Head(results))>> ELSE <<>>)
         \o SomeItems(Tail(results))

Yielded == SomeItems(out)

YieldedKeys == [i \in 1..Len(Yielded) |-> Yielded[i].key]

\* next() has returned None at least once.
Exhausted == \E i \in 1..Len(out) : out[i] = None

\* The number of items next() still yields from an iterator.
RECURSIVE Drain(_)
Drain(it) ==
    LET r == Iter_next(it) IN
    IF r.item = None THEN 0 ELSE 1 + Drain(r.iter)

\* The position in the insertion history of the first key that starts with q
\* (0 when there is none).
FirstIdx(q) ==
    IF \E i \in 1..Len(order) : IsPrefixOf(q, order[i])
    THEN CHOOSE i \in 1..Len(order) :
             /\ IsPrefixOf(q, order[i])
             /\ \A j \in 1..(i - 1) : ~IsPrefixOf(q, order[j])
    ELSE 0

\* C3: the length counter equals the number of value-bearing nodes reachable
\* from the root and the number of distinct keys inserted since the last
\* clear; is_empty() is true exactly when that number is 0.
C3_LengthCountsEntries ==
    LET n == Cardinality({k \in Keys : IsSome(last[k])}) IN
    /\ PrefixMap_len(map) = Node_count(map.root)
    /\ PrefixMap_len(map) = n
    /\ PrefixMap_is_empty(map) <=> (n = 0)

\* C3's case: an insert has overwritten one of two stored keys.
C3_Witness ==
    /\ ret # None
    /\ Unwrap(ret).op = "insert"
    /\ IsSome(Unwrap(ret).result)
    /\ PrefixMap_len(map) = 2
    /\ ~PrefixMap_is_empty(map)

\* C6: the items an iterator yields are entries of the map, each at most
\* once, with its full key; run to exhaustion it has yielded every entry, and
\* their number is len().
C6_IterYieldsExactlyEntries ==
    iter # None =>
        LET y == Yielded IN
        /\ \A i \in 1..Len(y) : PrefixMap_get(map, y[i].key) = Some(y[i].value)
        /\ \A i, j \in 1..Len(y) : i # j => y[i].key # y[j].key
        /\ Exhausted =>
               /\ {y[i] : i \in 1..Len(y)} = Entries
               /\ Len(y) = PrefixMap_len(map)

\* C6's case: an iterator run to exhaustion over a map with three entries,
\* one of them below a branch node, so that its key is made of two fragments.
C6_Witness ==
    /\ iter # None
    /\ Exhausted
    /\ Len(Yielded) = 3
    /\ \E c \in {map.root.children[i] : i \in 1..Len(map.root.children)} :
           c.value = None /\ Len(c.children) = 2

\* C8: after j calls of next() on an iterator over n entries the reported
\* length is max(n - j, 0), never negative, and is the number of items
\* next() still yields; a call returns None exactly when that length was 0
\* before it, so every call after the first None returns None.
C8_IterLenExactAndFused ==
    iter # None =>
        LET n == PrefixMap_len(map)
            j == Len(out)
            it == Unwrap(iter)
        IN /\ Iter_len(it) = Max(n - j, 0)
           /\ Iter_len(it) >= 0
           /\ Iter_len(it) = Drain(it)
           /\ \A i \in 1..j : (out[i] = None) <=> (Max(n - (i - 1), 0) = 0)

\* C8's case: two entries yielded (the root's among them) and then two
\* calls that returned None.
C8_Witness ==
    /\ iter # None
    /\ IsSome(map.root.value)
    /\ PrefixMap_len(map) = 2
    /\ Len(out) = 4
    /\ out[3] = None /\ out[4] = None

\* C9 as stated: the keys are yielded in the depth-first pre-order of the
\* whole tree, the root included, children in their stored order.
C9_PreOrderOfWholeTree ==
    (iter # None /\ Exhausted) => YieldedKeys = Node_walk(map.root, <<>>)

\* a is yielded before b: the empty key comes last; otherwise a key comes
\* before its extensions, and of two keys that diverge the one whose branch
\* was inserted first comes first.
YieldedBefore(a, b) ==
    IF a = <<>> THEN FALSE
    ELSE IF b = <<>> THEN TRUE
    ELSE LET p == common_prefix(a, b) IN
         IF p = Len(a) THEN p < Len(b)
         ELSE IF p = Len(b) THEN FALSE
         ELSE FirstIdx(SliceTo(a, p + 1)) < FirstIdx(SliceTo(b, p + 1))

\* C9 as amended: the keys of the nodes below the root are yielded in
\* depth-first pre-order, children in the order their branches were first
\* inserted, and the entry of the root (the empty key) is yielded last; keys
\* with pairwise different first symbols come in the order of their first
\* insertion.
C9_PreOrderBelowRootThenRoot ==
    iter # None =>
        LET y == YieldedKeys IN
        /\ \A i, j \in 1..Len(y) : i < j => YieldedBefore(y[i], y[j])
        /\ Exhausted =>
               /\ y = Forest_walk(map.root.children, <<>>)
                          \o (IF IsSome(map.root.value) THEN <<(<<>>)>> ELSE <<>>)
               /\ (\A i, j \in 1..Len(order) :
                       i # j => /\ order[i] # <<>>
                                /\ order[j] # <<>>
                                /\ Head(order[i]) # Head(order[j]))
                      => y = order

\* C9's case: the node of the first key was split by the third insertion and
\* kept its place before the node of the second key.
C9_Witness ==
    /\ iter # None
    /\ Exhausted
    /\ order = << <<1, 1>>, <<2>>, <<1, 2>> >>
    /\ YieldedKeys = << <<1, 1>>, <<1, 2>>, <<2>> >>

\* C11 as stated: when the root holds a value, the first item the iterator
\* yields is the root's entry (the empty key with the root's value).
C11_RootEntryFirst ==
    (iter # None /\ IsSome(Tree_value(map.root)) /\ Len(Yielded) >= 1)
        => Yielded[1] = [key |-> <<>>, value |-> Unwrap(Tree_value(map.root))]

\* C11 as amended: the root's entry is yielded last: the empty key is yielded
\* only as the len()-th item, after every entry of a non-empty key, with the
\* root's value; and once next() has returned None with a value in the root,
\* the last item yielded is the root's entry.
C11_RootEntryLast ==
    iter # None =>
        LET y == Yielded IN
        /\ \A i \in 1..Len(y) :
               y[i].key = <<>> =>
                   /\ i = Len(y)
                   /\ i = PrefixMap_len(map)
                   /\ y[i].value = Unwrap(Tree_value(map.root))
                   /\ \A k \in Keys :
                          (k # <<>> /\ IsSome(PrefixMap_get(map, k)))
                              => \E j \in 1..(i - 1) : y[j].key = k
        /\ (Exhausted /\ IsSome(Tree_value(map.root)))
               => (Len(y) >= 1 /\ y[Len(y)].key = <<>>)

\* C11's case: the empty key was stored first, two other keys after it, and
\* the iterator yielded the root's entry as the third and last item.
C11_Witness ==
    /\ iter # None
    /\ Exhausted
    /\ order = << <<>>, <<1>>, <<2>> >>
    /\ YieldedKeys = << <<1>>, <<2>>, <<>> >>

(***************************************************************************)
(* Properties of PrefixSet (SpecSet).                                      *)
(***************************************************************************)
\* C10: insert returns true exactly on the first insertion of a key, and
\* contains is true exactly for the keys inserted.
C10_SetInsertAndContains ==
    /\ sret # None => (Unwrap(sret).result <=> Unwrap(sret).fresh)
    /\ \A k \in Keys : PrefixSet_contains(set, k) <=> k \in sadded

\* C10's case: a key inserted a second time, next to another key.
C10_Witness ==
    /\ sret # None
    /\ ~Unwrap(sret).result
    /\ Cardinality(sadded) = 2

====
